---- MODULE Spec2Model ----
(***************************************************************************)
(* One process running one Nagios plugin built on the Check class, in the  *)
(* two variants the repository carries: src/src/pynag/__init__.py          *)
(* ("pynag") and src/nagios/__init__.py ("nagios").                        *)
(*                                                                         *)
(* The state is the Check object's fields, the process-wide SIGALRM        *)
(* handler and alarm, sys.stdout, what reached the real standard output,   *)
(* and the position of the single thread of control (pc) inside            *)
(* set_cleanup / run / TimeoutFunction.__call__ / _exit.  Time is          *)
(* abstract: a pending alarm may be delivered between any two steps.       *)
(***************************************************************************)
EXTENDS Integers, Sequences, FiniteSets, TLC

(* ------------------------------- bounds -------------------------------- *)
\* largest --timeout value tried on the command line
MaxTimeout == 2
\* largest --cleanup-timeout value tried on the command line
MaxCleanupTimeout == 1
\* how many lines the check / cleanup callables may print
MaxWrites == 1
\* how many set_cleanup calls the plugin script makes before run
MaxSetCleanup == 2

(* --------------------------- program constants ------------------------- *)
\* Check.__init__ default for timeout (pynag)
DefaultTimeoutPynag == 10
\* Check.__init__ default for timeout (nagios)
DefaultTimeoutNagios == 30
\* Check.__init__ default for cleanup_timeout
DefaultCleanupTimeout == 60
\* the placeholder stored in self.cleanup_timeout by the constructor
PlaceholderCleanupTimeout == 60

Variants == {"pynag", "nagios"}

\* RETURN_CODES with the codes of CRITICAL and UNKNOWN exchanged
RETURN_CODES_exchanged ==
    [OK |-> 0, WARNING |-> 1, CRITICAL |-> 3, UNKNOWN |-> 2, DEPENDANT |-> 4]

\* RETURN_CODES
RETURN_CODES ==
    [OK |-> 0, WARNING |-> 1, CRITICAL |-> 2, UNKNOWN |-> 3, DEPENDANT |-> 4]

StatusNames == {"OK", "WARNING", "CRITICAL", "UNKNOWN", "DEPENDANT"}

\* the name given to the Check constructor
CheckName == "CHECK"

\* messages a check function may return or hand to an Execution* exception
Messages == {"disk ok", "disk full"}

(* ------------------------------ exceptions ----------------------------- *)
NoExc == [type |-> "none", msg |-> ""]
Exc(t, m) == [type |-> t, msg |-> m]
TimeoutException == Exc("TimeoutException", "")

\* the four distinguished signals
ExecutionSignals ==
    {"ExecutionCritical", "ExecutionWarning", "ExecutionUnknown",
     "ExecutionDependant"}

\* str() of an exception built with one argument is that argument
ExcStr(e) == e.msg

(* ---------------------- callables handed to the check ------------------ *)
\* what the check function does when it is left to run
\*   rearm / disarm: the function calls signal.alarm(1) / signal.alarm(0)
\*   itself and then never returns
CheckDoes ==
    {"return", "hang", "ValueError", "rearm", "disarm", "nested"}
        \cup ExecutionSignals
\* what a cleanup callback does when it is left to run
CleanupDoes == {"return", "hang", "ValueError", "ExecutionCritical"}

\* kinds of object a plugin may hand to set_cleanup:
\*   function        a plain def (has __name__, no attribute "function")
\*   wrapped         a function carrying a "function" attribute that names a
\*                   function (has __name__ and .function.__name__)
\*   TimeoutFunction a TimeoutFunction instance (callable, .function only)
\*   string          not callable
\*   None
CallbackKinds == {"function", "wrapped", "TimeoutFunction", "string", "None"}
NoCallback == [kind |-> "None", does |-> "return"]
\* no set_cleanup call is on record
NoCall == [kind |-> "no call", does |-> "return"]

\* no add_option call is on record
NoOptionCall == "no call"
\* no earlier process is on record
NoRun == [done |-> FALSE, debug |-> FALSE, given |-> <<>>, reached |-> <<>>]

\* callable(x)
Callable(kind) == kind \in {"function", "wrapped", "TimeoutFunction"}
\* x.__name__ exists
HasName(kind) == kind \in {"function", "wrapped"}
\* x.function.__name__ exists
HasFunctionName(kind) == kind \in {"wrapped", "TimeoutFunction"}
\* bool(x)
Truthy(cb) == cb.kind # "None"

(* -------------------------------- state -------------------------------- *)
VARIABLES
    variant,          \* which of the two modules the plugin imports
    DEBUG,            \* the module-level DEBUG flag
    argv,             \* the command line: verbose, --timeout, --cleanup-timeout
    ctor,             \* timeout / cleanup_timeout given to Check.__init__
    checkFn,          \* self.check: [does, msg]
    options,          \* the parsed options of run (valid once run has begun)
    cleanup_timeout,  \* self.cleanup_timeout
    start_time,       \* whether self.start_time exists
    old_stdout,       \* self.old_stdout
    sys_stdout,       \* sys.stdout: "orig" or "null" (a NullStream)
    cleanup_callback, \* self.cleanup_callback: [kind, does]
    setup_left,       \* set_cleanup calls the plugin script still makes
    raised,           \* exception the last set_cleanup call raised to the script
    last_cleanup,     \* argument of the script's last set_cleanup call
    pc,               \* position of the thread of control
    phase,            \* whose TimeoutFunction is active: "check" or "cleanup"
    exc,              \* exception pending inside TimeoutFunction.__call__ / run
    result,           \* value returned by the wrapped function
    handler,          \* installed SIGALRM handler
    old,              \* the "old" local of each TimeoutFunction.__call__
    alarm,            \* argument of the last signal.alarm still pending, else 0
    exit_type,        \* the "type" argument of _exit
    exit_message,     \* the "message" argument of _exit
    output,           \* lines that reached the process's real standard output
    discarded,        \* number of lines written to the NullStream
    exitCode,         \* argument of sys.exit, -1 while the process has not exited
    uncaught,         \* type of the exception that left run / the script uncaught
    outcome,          \* which of success/critical/warning/unknown/dependant run called
    checkResult,      \* how the check function ended: returned, raised, timeout
    checkCalls,       \* number of invocations of the check function
    cleanupArgs,      \* arguments of each invocation of the cleanup callback
    cleanupResult,    \* how the cleanup callback ended
    own_alarm,        \* whether a wrapped callable has called signal.alarm itself
    schedule,         \* positions at which a SIGALRM was delivered, in order
    last_option,      \* argument of the script's add_option call
    first             \* what an earlier process of the same plugin was given
                      \* and how it ended (comparison of two processes)

static == <<variant, DEBUG, argv, ctor, checkFn, last_option, first>>
object == <<options, cleanup_timeout, start_time, old_stdout, cleanup_callback>>
script == <<setup_left, raised, last_cleanup>>
signals == <<handler, old, alarm>>
exitargs == <<exit_type, exit_message, outcome>>
streams == <<sys_stdout, output, discarded>>
ending == <<exitCode, uncaught>>
history == <<checkResult, checkCalls, cleanupArgs, cleanupResult, own_alarm>>
control == <<pc, phase, exc, result>>

vars == <<static, object, script, signals, exitargs, streams, ending, history,
          control, schedule>>

(* ----------------------------- output lines ---------------------------- *)
Line(kind, name, status, message) ==
    [kind |-> kind, name |-> name, status |-> status, message |-> message]
DebugLine(message) == Line("debug", "", "", message)
VerboseLine(who) == Line("verbose", "", "", who)
\* print "%s %s: %s" % (self.name, type, message)
StatusLine(name, type, message) == Line("status", name, type, message)

\* nagios_debug: the line goes to output_stream, the sys.stdout of import time
nagios_debug(out, message) ==
    IF DEBUG THEN Append(out, DebugLine(message)) ELSE out

\* a NullStream that passes what it is given on to the real standard output
Write_through(stream, out, line) == Append(out, line)

\* a write to sys.stdout: NullStream.write does nothing
Write(stream, out, line) == IF stream = "orig" THEN Append(out, line) ELSE out

(* ------------------------------ command line --------------------------- *)
NotGiven == [given |-> FALSE, value |-> 0]
Given(v) == [given |-> TRUE, value |-> v]

DefaultTimeout(v) ==
    IF v = "pynag" THEN DefaultTimeoutPynag ELSE DefaultTimeoutNagios

\* optparse: an option absent from the command line takes its default
Resolve(arg, default) == IF arg.given THEN arg.value ELSE default

\* self.options.parse_args()
parse_args ==
    [verbose         |-> argv.verbose,
     timeout         |-> Resolve(argv.timeout, ctor.timeout),
     cleanup_timeout |-> Resolve(argv.cleanup_timeout, ctor.cleanup_timeout)]

\* Check(func, name): timeout and cleanup_timeout left at their defaults
DefaultArguments(v) ==
    [timeout |-> DefaultTimeout(v), cleanup_timeout |-> DefaultCleanupTimeout]

\* Check(func, name, timeout=..., cleanup_timeout=...)
OwnArguments ==
    [timeout |-> MaxTimeout, cleanup_timeout |-> MaxCleanupTimeout]

NoOptions == [verbose |-> FALSE, timeout |-> 0, cleanup_timeout |-> 0]

(* --------------------------------- Init -------------------------------- *)
\* the state after  check = Check(func, CheckName, ...)
Init ==
    /\ variant \in Variants
    /\ DEBUG \in BOOLEAN
    /\ argv \in [verbose : BOOLEAN,
                 timeout : {NotGiven} \cup {Given(v) : v \in -1 .. MaxTimeout},
                 cleanup_timeout :
                     {NotGiven} \cup {Given(v) : v \in -1 .. MaxCleanupTimeout}]
    /\ ctor \in {DefaultArguments(variant)}
                 \cup (IF argv.timeout = NotGiven THEN {OwnArguments} ELSE {})
    /\ checkFn \in
         {[does |-> d, msg |-> m] : d \in {"return"} \cup ExecutionSignals,
                                    m \in Messages}
         \cup {[does |-> d, msg |-> ""] :
                 d \in {"hang", "ValueError", "rearm", "disarm", "nested"}}
    /\ options = NoOptions
    /\ cleanup_timeout = PlaceholderCleanupTimeout
    /\ start_time = FALSE
    /\ old_stdout = "orig"
    /\ sys_stdout = "orig"
    /\ cleanup_callback = NoCallback
    /\ setup_left = MaxSetCleanup
    /\ raised = "none"
    /\ last_cleanup = NoCall
    /\ pc = "setup"
    /\ phase = "check"
    /\ exc = NoExc
    /\ result = ""
    /\ handler = "SIG_DFL"
    /\ old = [check |-> "SIG_DFL", cleanup |-> "SIG_DFL", nested |-> "SIG_DFL"]
    /\ alarm = 0
    /\ exit_type = ""
    /\ exit_message = ""
    /\ output = nagios_debug(<<>>, "Check initialization arguments")
    /\ discarded = 0
    /\ exitCode = -1
    /\ uncaught = "none"
    /\ outcome = "none"
    /\ checkResult = "none"
    /\ checkCalls = 0
    /\ cleanupArgs = <<>>
    /\ cleanupResult = "none"
    /\ own_alarm = FALSE
    /\ schedule = <<>>
    /\ last_option = NoOptionCall
    /\ first = NoRun

(* ------------------------------ set_cleanup ---------------------------- *)
\* objects the plugin script hands to set_cleanup
CleanupArguments ==
    {[kind |-> k, does |-> d] :
        k \in {"function", "wrapped", "TimeoutFunction"}, d \in CleanupDoes}
    \cup {[kind |-> "string", does |-> "return"], NoCallback}

\* set_cleanup without its callable() test
set_cleanup_raises_unchecked(cleanup) ==
    IF ~HasName(cleanup.kind) THEN "AttributeError" ELSE "none"

\* the exception set_cleanup raises for an argument, "none" when it returns
set_cleanup_raises(cleanup) ==
    IF cleanup.kind # "None" /\ ~Callable(cleanup.kind) THEN "TypeError"
    ELSE IF ~HasName(cleanup.kind) THEN "AttributeError"
    ELSE "none"

\* check.set_cleanup(cleanup); the script either handles an exception the
\* call raises (caught) or dies of it
set_cleanup(cleanup, caught) ==
    /\ pc = "setup"
    /\ setup_left > 0
    /\ setup_left' = setup_left - 1
    /\ last_cleanup' = cleanup
    /\ LET e == set_cleanup_raises(cleanup) IN
       /\ raised' = e
       /\ IF e = "none"
          THEN /\ cleanup_callback' = cleanup
               /\ output' = nagios_debug(output, "Registered callback function")
               /\ UNCHANGED <<pc, uncaught>>
          ELSE /\ UNCHANGED <<cleanup_callback, output>>
               /\ IF caught
                  THEN UNCHANGED <<pc, uncaught>>
                  ELSE pc' = "crashed" /\ uncaught' = e
    /\ UNCHANGED <<schedule, static, options, cleanup_timeout, start_time, old_stdout,
                   signals, exitargs, sys_stdout, discarded, exitCode, history,
                   phase, exc, result>>

(* ------------------------------- add_option --------------------------- *)
\* what the plugin script hands to add_option: an optparse.Option, or
\* something that is neither an Option nor an option string
OptionArguments == {"Option", "number"}

\* the exception add_option raises for an argument, "none" when it returns.
\* nagios tests isinstance(new_option, Option) itself; pynag passes the
\* arguments on to OptionParser.add_option, which raises TypeError("invalid
\* arguments") for them.
add_option_raises(new_option) ==
    IF new_option = "Option" THEN "none" ELSE "TypeError"

\* add_option as the first thing the script does with its Check.  The debug
\* line comes after the isinstance test in nagios and before the call of
\* OptionParser.add_option in pynag.
add_option(new_option, caught) ==
    /\ pc = "setup"
    /\ setup_left = MaxSetCleanup
    /\ last_option = NoOptionCall
    /\ last_option' = new_option
    /\ LET e == add_option_raises(new_option) IN
       /\ raised' = e
       /\ output' = IF e = "none" \/ variant = "pynag"
                    THEN nagios_debug(output, "Added new option")
                    ELSE output
       /\ IF e = "none" \/ caught
          THEN UNCHANGED <<pc, uncaught>>
          ELSE pc' = "crashed" /\ uncaught' = e
    /\ UNCHANGED <<variant, DEBUG, argv, ctor, checkFn, first, object,
                   setup_left, last_cleanup, signals, exitargs, sys_stdout,
                   discarded, exitCode, history, schedule, phase, exc, result>>

(* ------------------------- raising and unwinding ----------------------- *)
Terminal == {"exited", "crashed", "killed"}

\* an exception leaves run, so the script, uncaught
Crash(e) ==
    /\ pc' = "crashed"
    /\ uncaught' = e.type
    /\ exc' = NoExc

\* a run that tries again after a timeout
Unwind_retry(ph, e) ==
    IF e.type = "TimeoutException"
    THEN pc' = "tf_init" /\ exc' = NoExc /\ UNCHANGED uncaught
    ELSE IF ph = "check"
         THEN pc' = "run_classify" /\ exc' = e /\ UNCHANGED uncaught
         ELSE Crash(e)

\* exception e leaves the TimeoutFunction code of phase ph.  For the check this
\* is the try block of run, whose except clauses decide; for the cleanup it is
\* the try block of _exit, which has the one clause "except TimeoutException:
\* pass" and lets anything else leave _exit and, with it, run.
Unwind(ph, e) ==
    IF ph = "check"
    THEN pc' = "run_classify" /\ exc' = e /\ UNCHANGED uncaught
    ELSE IF e.type = "TimeoutException"
         THEN pc' = "exit_restore" /\ exc' = NoExc /\ UNCHANGED uncaught
         ELSE Crash(e)

\* positions inside TimeoutFunction code but outside its try block
OutsideTry == {"tf_init", "tf_enter", "tf_alarm", "tf_direct", "tf_finally",
               "tf_cancel"}

\* exception e is raised at the current position
Raise(e) ==
    IF pc = "tf_function"
    THEN pc' = "tf_finally" /\ exc' = e /\ UNCHANGED uncaught
    ELSE IF pc \in OutsideTry THEN Unwind(phase, e)
    ELSE IF pc = "run_divert" THEN Unwind("check", e)
    ELSE Crash(e)

(* ---------------------------------- run -------------------------------- *)
\* run without line 295: self.cleanup_timeout stays what __init__ stored
run_begin_keeps_placeholder ==
    /\ pc = "setup"
    /\ options' = parse_args
    /\ cleanup_timeout' = cleanup_timeout
    /\ start_time' = TRUE
    /\ setup_left' = 0
    /\ raised' = "none"
    /\ last_cleanup' = NoCall
    /\ pc' = "run_divert"
    /\ UNCHANGED <<schedule, static, old_stdout, cleanup_callback, signals, exitargs,
                   streams, ending, history, phase, exc, result>>

\* lines 293-297 (pynag), 314-318 (nagios)
run_begin ==
    /\ pc = "setup"
    /\ options' = parse_args
    /\ cleanup_timeout' = parse_args.cleanup_timeout
    /\ start_time' = TRUE
    /\ setup_left' = 0
    /\ raised' = "none"
    /\ last_cleanup' = NoCall
    /\ pc' = "run_divert"
    /\ UNCHANGED <<schedule, static, old_stdout, cleanup_callback, signals, exitargs,
                   streams, ending, history, phase, exc, result>>

\* lines 300-303 (pynag), 321-324 (nagios)
run_divert ==
    /\ pc = "run_divert"
    /\ IF ~options.verbose
       THEN old_stdout' = sys_stdout /\ sys_stdout' = "null"
       ELSE UNCHANGED <<old_stdout, sys_stdout>>
    /\ phase' = "check"
    /\ pc' = "tf_init"
    /\ UNCHANGED <<schedule, static, options, cleanup_timeout, start_time,
                   cleanup_callback, script, signals, exitargs, output,
                   discarded, ending, history, exc, result>>

(* ---------------------------- TimeoutFunction -------------------------- *)
\* self.timeout of the TimeoutFunction of a phase
Timeout(ph) == IF ph = "check" THEN options.timeout ELSE cleanup_timeout

\* what the wrapped function of a phase does
Does(ph) == IF ph = "check" THEN checkFn.does ELSE cleanup_callback.does

\* TimeoutFunction.__init__ raises AssertionError (pynag only)
init_asserts(t) == variant = "pynag" /\ ~(t >= 0)

\* the timeout is disabled and the function is called directly (pynag only)
disabled(t) == variant = "pynag" /\ t = 0

\* signal.alarm(t): the int goes to alarm(2) as a C unsigned int, so every
\* t other than 0, a negative one too, leaves an alarm pending.  The variable
\* keeps the int as given.
signal_alarm(t) == t

\* an alarm is pending
Pending == alarm # 0

\* the wrapped function is entered: the cleanup callback is handed "type"
Invoke(ph) ==
    IF ph = "cleanup"
    THEN cleanupArgs' = Append(cleanupArgs, exit_type) /\ UNCHANGED checkCalls
    ELSE checkCalls' = checkCalls + 1 /\ UNCHANGED cleanupArgs

\* how the wrapped function, or the TimeoutFunction around it, ended
Note(ph, how) ==
    IF ph = "check"
    THEN checkResult' = how /\ UNCHANGED cleanupResult
    ELSE cleanupResult' = how /\ UNCHANGED checkResult

\* TimeoutFunction(function, timeout)
TimeoutFunction_init ==
    /\ pc = "tf_init"
    /\ IF init_asserts(Timeout(phase))
       THEN Raise(Exc("AssertionError", "")) /\ Note(phase, "rejected")
       ELSE pc' = "tf_enter" /\ UNCHANGED <<exc, uncaught, checkResult, cleanupResult>>
    /\ UNCHANGED <<schedule, static, object, script, signals, exitargs, streams, exitCode,
                   checkCalls, cleanupArgs, own_alarm, phase, result>>

\* __call__ up to signal.signal(SIGALRM, self._handle_timeout)
TimeoutFunction_call ==
    /\ pc = "tf_enter"
    /\ IF disabled(Timeout(phase))
       THEN /\ pc' = "tf_direct"
            /\ Invoke(phase)
            /\ UNCHANGED <<handler, old>>
       ELSE /\ old' = [old EXCEPT ![phase] = handler]
            /\ handler' = phase
            /\ pc' = "tf_alarm"
            /\ UNCHANGED <<checkCalls, cleanupArgs>>
    /\ UNCHANGED <<schedule, static, object, script, alarm, exitargs, streams, ending,
                   checkResult, cleanupResult, own_alarm, phase, exc, result>>

\* signal.alarm(self.timeout) and entry into the try block
TimeoutFunction_alarm ==
    /\ pc = "tf_alarm"
    /\ alarm' = signal_alarm(Timeout(phase))
    /\ Invoke(phase)
    /\ pc' = "tf_function"
    /\ UNCHANGED <<schedule, static, object, script, handler, old, exitargs, streams,
                   ending, checkResult, cleanupResult, own_alarm, phase, exc,
                   result>>

\* where control goes when __call__ returns
Return(ph) ==
    IF ph = "check" THEN pc' = "run_classify" ELSE pc' = "exit_restore"

InFunction == pc \in {"tf_function", "tf_direct"}

Written ==
    discarded + Cardinality({i \in DOMAIN output : output[i].kind = "verbose"})

\* the wrapped function prints a line
function_write ==
    /\ InFunction
    /\ Written < MaxWrites
    /\ output' = Write(sys_stdout, output, VerboseLine(phase))
    /\ discarded' = IF sys_stdout = "null" THEN discarded + 1 ELSE discarded
    /\ UNCHANGED <<schedule, static, object, script, signals, exitargs, sys_stdout,
                   ending, history, control>>

\* the wrapped function calls signal.alarm itself
function_alarm ==
    /\ InFunction
    /\ Does(phase) \in {"rearm", "disarm"}
    /\ ~own_alarm
    /\ own_alarm' = TRUE
    /\ alarm' = IF Does(phase) = "rearm" THEN signal_alarm(1) ELSE signal_alarm(0)
    /\ UNCHANGED <<schedule, static, object, script, handler, old, exitargs, streams,
                   ending, checkResult, checkCalls, cleanupArgs, cleanupResult, control>>

\* the wrapped function calls a TimeoutFunction of its own: __call__ up to
\* the call of the inner function
nested_call ==
    /\ InFunction
    /\ Does(phase) = "nested"
    /\ ~own_alarm
    /\ own_alarm' = TRUE
    /\ old' = [old EXCEPT !["nested"] = handler]
    /\ handler' = "nested"
    /\ alarm' = signal_alarm(1)
    /\ UNCHANGED <<schedule, static, object, script, exitargs, streams, ending,
                   checkResult, checkCalls, cleanupArgs, cleanupResult, control>>

\* the inner function returns: finally, signal.alarm(0), return
nested_return ==
    /\ InFunction
    /\ handler = "nested"
    /\ handler' = old["nested"]
    /\ alarm' = signal_alarm(0)
    /\ UNCHANGED <<schedule, static, object, script, old, exitargs, streams, ending,
                   history, control>>

\* the wrapped function returns
function_return ==
    /\ InFunction
    /\ Does(phase) = "return"
    /\ result' = IF phase = "check" THEN checkFn.msg ELSE result
    /\ Note(phase, "returned")
    /\ IF pc = "tf_function" THEN pc' = "tf_finally" ELSE Return(phase)
    /\ UNCHANGED <<schedule, static, object, script, signals, exitargs, streams, ending,
                   checkCalls, cleanupArgs, own_alarm, phase, exc>>

\* the wrapped function raises
function_raise ==
    /\ InFunction
    /\ Does(phase) \in ExecutionSignals \cup {"ValueError"}
    /\ Note(phase, "raised")
    /\ Raise(Exc(Does(phase), IF phase = "check" THEN checkFn.msg ELSE ""))
    /\ UNCHANGED <<schedule, static, object, script, signals, exitargs, streams, exitCode,
                   checkCalls, cleanupArgs, own_alarm, phase, result>>

\* finally: signal.signal(signal.SIGALRM, old)
TimeoutFunction_finally ==
    /\ pc = "tf_finally"
    /\ handler' = old[phase]
    /\ IF exc # NoExc
       THEN Unwind(phase, exc)
       ELSE pc' = "tf_cancel" /\ UNCHANGED <<exc, uncaught>>
    /\ UNCHANGED <<schedule, static, object, script, old, alarm, exitargs, streams,
                   exitCode, history, phase, result>>

\* signal.alarm(0); return result
TimeoutFunction_cancel ==
    /\ pc = "tf_cancel"
    /\ alarm' = signal_alarm(0)
    /\ Return(phase)
    /\ UNCHANGED <<schedule, static, object, script, handler, old, exitargs, streams,
                   ending, history, phase, exc, result>>

\* the alarm goes off: SIG_DFL terminates the process, _handle_timeout raises
\* TimeoutException wherever the thread of control is
SIGALRM ==
    /\ Pending
    /\ pc \notin Terminal
    /\ alarm' = 0
    /\ schedule' = Append(schedule, <<phase, pc>>)
    /\ IF handler = "SIG_DFL"
       THEN pc' = "killed" /\ UNCHANGED <<exc, uncaught, checkResult, cleanupResult>>
       ELSE /\ Raise(TimeoutException)
            /\ IF InFunction
               THEN Note(phase, "timeout")
               ELSE UNCHANGED <<checkResult, cleanupResult>>
    /\ UNCHANGED <<static, object, script, handler, old, exitargs, streams,
                   exitCode, checkCalls, cleanupArgs, own_alarm, phase, result>>

(* ----------------------------- classification -------------------------- *)
\* "%f" % t for an integer t: six decimals
FormatF(t) == ToString(t) \o ".000000"

\* (options.timeout > 1) and "s" or ""
Plural(t) == IF t > 1 THEN "s" ELSE ""

TimeoutMessageParts(t) ==
    <<"Timeout reached (", FormatF(t), " second", Plural(t), ")">>

\* "Timeout reached (%f second%s)" % (options.timeout, plural)
TimeoutMessage(t) ==
    LET p == TimeoutMessageParts(t) IN p[1] \o p[2] \o p[3] \o p[4] \o p[5]

\* the except clause for a TimeoutException calling self.critical in both
\* variants
timeout_method_critical == "critical"

\* the method the except clause for a TimeoutException calls
timeout_method == IF variant = "pynag" THEN "unknown" ELSE "critical"

\* the method run calls for what left the try block: the else clause when
\* nothing was raised, "none" when no except clause matches
Classify(e) ==
    CASE e.type = "none" -> "success"
      [] e.type = "TimeoutException" -> timeout_method
      [] e.type = "ExecutionCritical" -> "critical"
      [] e.type = "ExecutionWarning" -> "warning"
      [] e.type = "ExecutionUnknown" -> "unknown"
      [] e.type = "ExecutionDependant" -> "dependant"
      [] OTHER -> "none"

\* critical, warning, success, unknown, dependant: the type each hands to _exit
MethodType(method) ==
    CASE method = "critical" -> "CRITICAL"
      [] method = "warning" -> "WARNING"
      [] method = "success" -> "OK"
      [] method = "unknown" -> "UNKNOWN"
      [] method = "dependant" -> "DEPENDANT"

\* the message run hands to the method
ClassifyMessage(e) ==
    CASE e.type = "none" -> result
      [] e.type = "TimeoutException" -> TimeoutMessage(options.timeout)
      [] OTHER -> ExcStr(e)

\* the except / else clauses of run, up to the call of _exit
run_classify ==
    /\ pc = "run_classify"
    /\ IF Classify(exc) = "none"
       THEN /\ Crash(exc)
            /\ UNCHANGED <<exitargs, output>>
       ELSE /\ outcome' = Classify(exc)
            /\ exit_type' = MethodType(Classify(exc))
            /\ exit_message' = ClassifyMessage(exc)
            /\ output' = IF exc.type = "TimeoutException"
                         THEN nagios_debug(output, "Timeout reached.")
                         ELSE output
            /\ pc' = "exit_enter"
            /\ exc' = NoExc
            /\ UNCHANGED uncaught
    /\ UNCHANGED <<schedule, static, object, script, signals, sys_stdout, discarded,
                   exitCode, history, phase, result>>

\* the five methods that end a check
Methods == {"critical", "warning", "success", "unknown", "dependant"}

\* the script calls one of the five methods on the Check it constructed,
\* without having called run.  The command line is never parsed on this path,
\* so the scripts started without timeout options stand for all.
call_before_run(method, message) ==
    /\ pc = "setup"
    /\ argv.timeout = NotGiven
    /\ argv.cleanup_timeout = NotGiven
    /\ outcome' = method
    /\ exit_type' = MethodType(method)
    /\ exit_message' = message
    /\ pc' = "exit_enter"
    /\ UNCHANGED <<schedule, static, object, script, signals, streams, ending, history,
                   phase, exc, result>>

(* --------------------------------- _exit ------------------------------- *)
\* time_elapsed = time.time() - self.start_time; nagios_debug(...)
exit_enter ==
    /\ pc = "exit_enter"
    /\ IF start_time
       THEN /\ output' = nagios_debug(output, "Time elapsed during check")
            /\ pc' = "exit_callback"
            /\ UNCHANGED <<exc, uncaught>>
       ELSE /\ Crash(Exc("AttributeError", ""))
            /\ UNCHANGED output
    /\ UNCHANGED <<schedule, static, object, script, signals, exitargs, sys_stdout,
                   discarded, exitCode, history, phase, result>>

\* _exit with a nagios_debug that evaluates its arguments only when DEBUG
\* is set
exit_callback_lazy ==
    /\ pc = "exit_callback"
    /\ IF Truthy(cleanup_callback)
       THEN IF HasFunctionName(cleanup_callback.kind) \/ ~DEBUG
            THEN /\ output' = nagios_debug(output, "Invoking cleanup callback")
                 /\ phase' = "cleanup"
                 /\ pc' = "tf_init"
                 /\ UNCHANGED <<exc, uncaught>>
            ELSE /\ Crash(Exc("AttributeError", ""))
                 /\ UNCHANGED <<output, phase>>
       ELSE /\ output' = nagios_debug(output, "No cleanup callback defined")
            /\ pc' = "exit_restore"
            /\ UNCHANGED <<exc, uncaught, phase>>
    /\ UNCHANGED <<schedule, static, object, script, signals, exitargs, sys_stdout,
                   discarded, exitCode, history, result>>

\* if self.cleanup_callback: nagios_debug(..., self.cleanup_callback.function
\* .__name__) else: nagios_debug(...).  The argument is evaluated whether or not
\* DEBUG is set.
exit_callback ==
    /\ pc = "exit_callback"
    /\ IF Truthy(cleanup_callback)
       THEN IF HasFunctionName(cleanup_callback.kind)
            THEN /\ output' = nagios_debug(output, "Invoking cleanup callback")
                 /\ phase' = "cleanup"
                 /\ pc' = "tf_init"
                 /\ UNCHANGED <<exc, uncaught>>
            ELSE /\ Crash(Exc("AttributeError", ""))
                 /\ UNCHANGED <<output, phase>>
       ELSE /\ output' = nagios_debug(output, "No cleanup callback defined")
            /\ pc' = "exit_restore"
            /\ UNCHANGED <<exc, uncaught, phase>>
    /\ UNCHANGED <<schedule, static, object, script, signals, exitargs, sys_stdout,
                   discarded, exitCode, history, result>>

\* _exit without lines 203-204: the diverted stream stays in place
exit_restore_skipped ==
    /\ pc = "exit_restore"
    /\ sys_stdout' = sys_stdout
    /\ pc' = "exit_print"
    /\ UNCHANGED <<schedule, static, object, script, signals, exitargs, output, discarded,
                   ending, history, phase, exc, result>>

\* sys.stdout = self.old_stdout
exit_restore ==
    /\ pc = "exit_restore"
    /\ sys_stdout' = old_stdout
    /\ pc' = "exit_print"
    /\ UNCHANGED <<schedule, static, object, script, signals, exitargs, output, discarded,
                   ending, history, phase, exc, result>>

\* print "%s %s: %s" % (self.name, type, message)
exit_print ==
    /\ pc = "exit_print"
    /\ output' = Write(sys_stdout, output,
                       StatusLine(CheckName, exit_type, exit_message))
    /\ pc' = "exit_sysexit"
    /\ UNCHANGED <<schedule, static, object, script, signals, exitargs, sys_stdout,
                   discarded, ending, history, phase, exc, result>>

\* sys.exit(RETURN_CODES[type]), after a debug line in the nagios variant
exit_sysexit ==
    /\ pc = "exit_sysexit"
    /\ output' = IF variant = "nagios"
                 THEN nagios_debug(output, "Check returned with exit code")
                 ELSE output
    /\ exitCode' = RETURN_CODES[exit_type]
    /\ pc' = "exited"
    /\ UNCHANGED <<schedule, static, object, script, signals, exitargs, sys_stdout,
                   discarded, uncaught, history, phase, exc, result>>

(* --------------------------- a second process -------------------------- *)
\* what a process was given: the callback registered for its run, the setup
\* call it ended in if it never ran, and what the kernel and the wrapped
\* functions chose to do (alarm deliveries, own signal.alarm calls)
Given_to_process ==
    [started  |-> start_time,
     callback |-> cleanup_callback,
     option   |-> last_option,
     cleanup  |-> last_cleanup,
     method   |-> IF start_time THEN "run" ELSE outcome,
     alarms   |-> schedule,
     own      |-> own_alarm]

\* how a process ended: status, exit code, status message, exception
Reached_by_process ==
    [pc        |-> pc,
     type      |-> exit_type,
     message   |-> exit_message,
     code      |-> exitCode,
     uncaught  |-> uncaught,
     raised    |-> raised,
     status    |-> SelectSeq(output, LAMBDA l : l.kind = "status")]

\* the plugin has ended and is started again, with the same command line and
\* the same script, and with DEBUG the other way round: the state is that
\* after construction (Check.__init__) once more.  A process that ended
\* before run never called its check function: of those, the plugins whose
\* check returns stand for all.
second_process ==
    /\ pc \in Terminal
    /\ ~first.done
    /\ start_time \/ checkFn.does = "return"
    /\ first' = [done |-> TRUE, debug |-> DEBUG, given |-> Given_to_process,
                 reached |-> Reached_by_process]
    /\ DEBUG' = ~DEBUG
    /\ output' = IF ~DEBUG
                 THEN <<DebugLine("Check initialization arguments")>>
                 ELSE <<>>
    /\ options' = NoOptions
    /\ cleanup_timeout' = PlaceholderCleanupTimeout
    /\ start_time' = FALSE
    /\ old_stdout' = "orig"
    /\ sys_stdout' = "orig"
    /\ cleanup_callback' = NoCallback
    /\ setup_left' = MaxSetCleanup
    /\ raised' = "none"
    /\ last_cleanup' = NoCall
    /\ last_option' = NoOptionCall
    /\ pc' = "setup"
    /\ phase' = "check"
    /\ exc' = NoExc
    /\ result' = ""
    /\ handler' = "SIG_DFL"
    /\ old' = [check |-> "SIG_DFL", cleanup |-> "SIG_DFL", nested |-> "SIG_DFL"]
    /\ alarm' = 0
    /\ exit_type' = ""
    /\ exit_message' = ""
    /\ discarded' = 0
    /\ exitCode' = -1
    /\ uncaught' = "none"
    /\ outcome' = "none"
    /\ checkResult' = "none"
    /\ checkCalls' = 0
    /\ cleanupArgs' = <<>>
    /\ cleanupResult' = "none"
    /\ own_alarm' = FALSE
    /\ schedule' = <<>>
    /\ UNCHANGED <<variant, argv, ctor, checkFn>>

(* ------------------------------ specification -------------------------- *)
Next ==
    \/ \E c \in CleanupArguments, caught \in BOOLEAN : set_cleanup(c, caught)
    \/ \E method \in Methods : call_before_run(method, "disk full")
    \/ run_begin
    \/ run_divert
    \/ TimeoutFunction_init
    \/ TimeoutFunction_call
    \/ TimeoutFunction_alarm
    \/ function_write
    \/ function_alarm
    \/ nested_call
    \/ nested_return
    \/ function_return
    \/ function_raise
    \/ TimeoutFunction_finally
    \/ TimeoutFunction_cancel
    \/ SIGALRM
    \/ run_classify
    \/ exit_enter
    \/ exit_callback
    \/ exit_restore
    \/ exit_print
    \/ exit_sysexit

Spec == Init /\ [][Next]_vars

\* the plugins compared: one message, the check timeout left to the
\* constructor or set to 0, the cleanup timeout left to the constructor,
\* quiet; the first process runs without DEBUG
TwinInit ==
    /\ Init
    /\ ~DEBUG
    /\ ~argv.verbose
    /\ argv.timeout \in {NotGiven, Given(0)}
    /\ argv.cleanup_timeout = NotGiven
    /\ checkFn.msg # "disk full"

\* s is t, or t cut short
IsPrefix(s, t) == Len(s) <= Len(t) /\ SubSeq(t, 1, Len(s)) = s

\* the second process is given what the first was given: the setup calls of
\* the script, run or the method called in its place, alarms delivered at
\* the same positions, and wrapped functions that call signal.alarm only if
\* they did before
SameScript ==
    first.done
        => /\ cleanup_callback' \in {NoCallback, first.given.callback}
           /\ last_cleanup' \in {NoCall, first.given.callback,
                                 first.given.cleanup}
           /\ last_option' \in {NoOptionCall, first.given.option}
           /\ start_time' => first.given.started
           /\ (~start_time' /\ outcome' # "none")
                => outcome' = first.given.method
           /\ IsPrefix(schedule', first.given.alarms)
           /\ own_alarm' => first.given.own

TwinNext ==
    \/ \E c \in CleanupArguments, caught \in BOOLEAN :
          set_cleanup(c, caught) /\ SameScript
    \/ \E method \in Methods :
          call_before_run(method, "disk full") /\ SameScript
    \/ run_begin /\ SameScript
    \/ run_divert /\ SameScript
    \/ TimeoutFunction_init /\ SameScript
    \/ TimeoutFunction_call /\ SameScript
    \/ TimeoutFunction_alarm /\ SameScript
    \/ function_write /\ SameScript
    \/ function_alarm /\ SameScript
    \/ nested_call /\ SameScript
    \/ nested_return /\ SameScript
    \/ function_return /\ SameScript
    \/ function_raise /\ SameScript
    \/ TimeoutFunction_finally /\ SameScript
    \/ TimeoutFunction_cancel /\ SameScript
    \/ SIGALRM /\ SameScript
    \/ run_classify /\ SameScript
    \/ exit_enter /\ SameScript
    \/ exit_callback /\ SameScript
    \/ exit_restore /\ SameScript
    \/ exit_print /\ SameScript
    \/ exit_sysexit /\ SameScript
    \/ \E o \in OptionArguments, caught \in BOOLEAN :
          add_option(o, caught) /\ SameScript
    \/ second_process

\* two processes of one plugin, one after the other, DEBUG set in one only
TwinSpec == TwinInit /\ [][TwinNext]_vars

\* the interpreter keeps running and the kernel delivers a pending alarm
FairSpec == Spec /\ WF_vars(Next)

TypeOK ==
    /\ pc \in {"setup", "run_divert", "tf_init", "tf_enter", "tf_alarm",
               "tf_function", "tf_direct", "tf_finally", "tf_cancel",
               "run_classify", "exit_enter", "exit_callback", "exit_restore",
               "exit_print", "exit_sysexit"} \cup Terminal
    /\ alarm \in -1 .. DefaultCleanupTimeout
    /\ handler \in {"SIG_DFL", "check", "cleanup", "nested"}
    /\ exitCode \in -1 .. 4
    /\ checkCalls \in 0 .. 1
    /\ sys_stdout \in {"orig", "null"}

(* ==================================================================== *)
(*                               claims                                  *)
(* ==================================================================== *)
\* the status lines among the lines that reached standard output
StatusLines == SelectSeq(output, LAMBDA l : l.kind = "status")

\* the spec's table: outcome -> status word and exit code
OutcomeStatus(o) ==
    CASE o = "success" -> "OK"
      [] o = "warning" -> "WARNING"
      [] o = "critical" -> "CRITICAL"
      [] o = "unknown" -> "UNKNOWN"
      [] o = "dependant" -> "DEPENDANT"
      [] OTHER -> "?"

OutcomeCode(o) ==
    CASE o = "success" -> 0
      [] o = "warning" -> 1
      [] o = "critical" -> 2
      [] o = "unknown" -> 3
      [] o = "dependant" -> 4
      [] OTHER -> -1

Outcomes == {"success", "critical", "warning", "unknown", "dependant"}

\* the process ended through _exit with outcome o and message m: one status
\* line "<name> <STATUS>: <m>" on standard output and the mapped exit code
ExitedWith(o, m) ==
    /\ pc = "exited"
    /\ outcome = o
    /\ exitCode = OutcomeCode(o)
    /\ StatusLines = <<StatusLine(CheckName, OutcomeStatus(o), m)>>

\* the outcome the spec gives each distinguished signal
SignalOutcome(d) ==
    CASE d = "ExecutionCritical" -> "critical"
      [] d = "ExecutionWarning" -> "warning"
      [] d = "ExecutionUnknown" -> "unknown"
      [] d = "ExecutionDependant" -> "dependant"
      [] OTHER -> "none"

\* C1: every run whose check function returned a message M without raising
\* ends with status OK, exit code 0 and a status line carrying M unchanged.
C1_ReturnedMessageExitsOK ==
    (pc \in Terminal /\ checkResult = "returned")
        => ExitedWith("success", checkFn.msg)

\* C2: every run whose check function raised one of the four distinguished
\* signals with message M ends with the matching status and exit code and
\* prints M; no signal is classified as another status.
C2_SignalExitsWithItsStatus ==
    /\ (checkResult = "raised" /\ checkFn.does \in ExecutionSignals
            /\ outcome # "none")
         => outcome = SignalOutcome(checkFn.does)
    /\ (pc \in Terminal /\ checkResult = "raised"
            /\ checkFn.does \in ExecutionSignals)
         => ExitedWith(SignalOutcome(checkFn.does), checkFn.msg)

\* C3: whenever the process has exited through _exit, the exit code is the
\* table value of the classified status (OK=0, WARNING=1, CRITICAL=2,
\* UNKNOWN=3, DEPENDANT=4) and the one status line printed reads
\* "<name> <STATUS>: <message>" with that same STATUS word.
C3_ExitCodeAndLineMatchStatus ==
    pc = "exited" =>
        /\ outcome \in Outcomes
        /\ exitCode = OutcomeCode(outcome)
        /\ Len(StatusLines) = 1
        /\ StatusLines[1].name = CheckName
        /\ StatusLines[1].status = OutcomeStatus(outcome)
        /\ StatusLines[1].message = exit_message

\* C3 witness: a run that exited DEPENDANT with code 4
C3_Witness ==
    /\ pc = "exited"
    /\ outcome = "dependant"
    /\ exitCode = 4
    /\ StatusLines = <<StatusLine(CheckName, "DEPENDANT", "disk full")>>

\* C4: every run ends through the exit mechanism with exactly one of the five
\* outcomes; the process never ends any other way (uncaught exception, death
\* by the alarm signal).
C4_AlwaysExitsThroughExit ==
    (pc \in Terminal /\ start_time) =>
        /\ pc = "exited"
        /\ outcome \in Outcomes
        /\ exitCode = OutcomeCode(outcome)
        /\ Len(StatusLines) = 1

\* C5: on every exit path of run a registered cleanup callback, whatever
\* callable it is, has been invoked exactly once, with the outcome's status
\* name as its only argument, when the run ends.
C5_CleanupInvokedOnceWithStatus ==
    (pc \in {"exited", "crashed"} /\ start_time /\ outcome # "none"
        /\ Truthy(cleanup_callback))
        => cleanupArgs = <<OutcomeStatus(outcome)>>

\* C6: if a registered cleanup callback does not return within the cleanup
\* timeout, the run still prints the status line and exits with the status,
\* exit code and message classified from the check.
C6_HangingCleanupKeepsOutcome ==
    (pc \in Terminal /\ start_time /\ outcome # "none"
        /\ Truthy(cleanup_callback) /\ cleanup_callback.does = "hang")
        => ExitedWith(outcome, exit_message)

\* C7: any failure of the cleanup phase (the callback raising, the callback
\* timing out, a cleanup timeout value the command line accepts) is absorbed:
\* the run still ends through _exit with the classified status and message.
C7_CleanupFailureAbsorbed ==
    (pc \in Terminal /\ cleanupResult \in {"raised", "timeout", "rejected"})
        => ExitedWith(outcome, exit_message)

\* the outcome each variant gives a check that timed out
TimeoutOutcome == IF variant = "nagios" THEN "critical" ELSE "unknown"

\* positions of a timed-out check that run has not classified yet
Unclassified == {"tf_function", "tf_direct", "tf_finally", "run_classify"}

C9_PynagTimeoutIsCritical ==
    (variant = "pynag" /\ checkResult = "timeout" /\ pc = "exited")
        => exit_type = "CRITICAL" /\ exitCode = 2

\* C10: with a check timeout T >= 1 and a cleanup timeout C >= 1, a run whose
\* check function never returns and whose cleanup callback, if any, never
\* returns, neither installing an alarm of its own, eventually reaches Exited.
C10_HangingRunExits ==
    (/\ pc = "run_divert"
     /\ options.timeout >= 1
     /\ cleanup_timeout >= 1
     /\ checkFn.does = "hang"
     /\ Truthy(cleanup_callback) => cleanup_callback.does = "hang")
        ~> (pc = "exited")

\* the lines the check function and the cleanup callback printed that reached
\* standard output
VerboseLines == SelectSeq(output, LAMBDA l : l.kind = "verbose")

\* the lines on standard output that are not lines of the debug channel
NonDebugLines == SelectSeq(output, LAMBDA l : l.kind # "debug")

\* C11: in non-verbose mode nothing the check function or the cleanup callback
\* writes reaches the output, so the status line is the only line printed (the
\* whole output when DEBUG is off; the debug channel's own lines aside when it
\* is on); in verbose mode every such write reaches the output and precedes
\* the status line.
C11_CallableOutputHiddenUnlessVerbose ==
    /\ (start_time /\ ~options.verbose) => VerboseLines = <<>>
    /\ (pc = "exited" /\ ~options.verbose)
         => NonDebugLines = <<StatusLine(CheckName, exit_type, exit_message)>>
    /\ (pc = "exited" /\ ~options.verbose /\ ~DEBUG)
         => output = <<StatusLine(CheckName, exit_type, exit_message)>>
    /\ (start_time /\ options.verbose) => discarded = 0
    /\ (pc = "exited" /\ options.verbose)
         => NonDebugLines = VerboseLines
                       \o <<StatusLine(CheckName, exit_type, exit_message)>>

\* C11 witness: a non-verbose run whose callable printed a line exited with
\* the status line as its whole output
C11_Witness ==
    /\ pc = "exited"
    /\ ~options.verbose
    /\ discarded = 1
    /\ Len(output) = 1
    /\ output[1].kind = "status"

\* the step is a set_cleanup call
SetCleanupStep == setup_left' < setup_left /\ last_cleanup' # NoCall

\* C12: set_cleanup called with an argument that is neither None nor callable
\* raises TypeError synchronously, before run and so before any check has
\* executed, and leaves the registered cleanup callback as it was.
C12_NonCallableRejected ==
    [][(SetCleanupStep /\ last_cleanup'.kind # "None"
            /\ ~Callable(last_cleanup'.kind))
         => /\ raised' = "TypeError"
            /\ cleanup_callback' = cleanup_callback
            /\ ~start_time'
            /\ checkResult' = "none"]_vars

\* C12 witness: a callback is registered and a later set_cleanup call with a
\* string has raised TypeError, the callback still registered
C12_Witness ==
    /\ last_cleanup.kind = "string"
    /\ raised = "TypeError"
    /\ cleanup_callback.kind = "function"

\* C13: set_cleanup called with None succeeds and leaves no cleanup callback
\* registered.
C13_NoneUnregisters ==
    (last_cleanup.kind = "None" /\ pc \in {"setup", "crashed"})
        => raised = "none" /\ cleanup_callback = NoCallback

\* C14: in the pynag variant a TimeoutFunction whose timeout is 0 is
\* unbounded: while the callable it wraps runs (having set no alarm of its
\* own), no alarm kills the process and none is turned into a timeout of the
\* callable, whatever ran before in the process.
C14_ZeroTimeoutIsUnbounded ==
    [][(variant = "pynag" /\ pc = "tf_direct" /\ ~own_alarm)
         => /\ pc' # "killed"
            /\ checkResult' = "timeout" => checkResult = "timeout"
            /\ cleanupResult' # "timeout"]_vars

\* how a wrapped function that was entered can end
Ended == {"returned", "raised", "timeout"}

\* C15: on every way out of TimeoutFunction.__call__ (the callable returned,
\* raised, or the timeout fired) the SIGALRM handler installed before the call
\* is installed again and no alarm the call set is still pending.
C15_NoTimerStateLeftBehind ==
    /\ (pc = "run_classify" /\ checkResult \in Ended /\ ~own_alarm)
         => handler = "SIG_DFL" /\ ~Pending
    /\ (pc = "exit_restore" /\ cleanupResult \in Ended
            /\ ~disabled(cleanup_timeout))
         => handler = old.cleanup /\ ~Pending

(* ------------------- the timeout message, character by character ------- *)
DecimalDigits == <<"0", "1", "2", "3", "4", "5", "6", "7", "8", "9">>

\* the decimal digits "%f" and "%d" print for an integer t
RECURSIVE Digits(_)
Digits(t) ==
    IF t < 0 THEN <<"-">> \o Digits(0 - t)
    ELSE IF t < 10 THEN <<DecimalDigits[t + 1]>>
    ELSE Digits(t \div 10) \o <<DecimalDigits[(t % 10) + 1]>>

\* "%f" % t for an integer t: the digits, a point and six decimals
FormatFChars(t) == Digits(t) \o <<".", "0", "0", "0", "0", "0", "0">>

\* (options.timeout > 1) and "s" or ""
PluralChars(t) == IF t > 1 THEN <<"s">> ELSE <<>>

TimeoutReachedChars ==
    <<"T", "i", "m", "e", "o", "u", "t", " ",
      "r", "e", "a", "c", "h", "e", "d", " ", "(">>

SecondChars == <<" ", "s", "e", "c", "o", "n", "d">>

\* "Timeout reached (%f second%s)" % (options.timeout, plural)
TimeoutMessageChars(t) ==
    TimeoutReachedChars \o FormatFChars(t) \o SecondChars \o PluralChars(t)
        \o <<")">>

\* needle in haystack, as Python's `in` on strings
Contains(haystack, needle) ==
    \E i \in 0 .. (Len(haystack) - Len(needle)) :
        \A j \in 1 .. Len(needle) : haystack[i + j] = needle[j]

\* a run whose check timed out, ended, and printed the timeout message
TimeoutMessagePrinted ==
    /\ pc = "exited"
    /\ checkResult = "timeout"
    /\ exit_message = TimeoutMessage(options.timeout)

\* C16: the printed timeout message contains "1 second" and not "seconds"
\* for a check timeout of 1, and "T seconds" for a check timeout T >= 2.
C16_MessageNamesTimeoutAndPlural ==
    (TimeoutMessagePrinted /\ options.timeout >= 1)
        => LET printed == TimeoutMessageChars(options.timeout)
               T == Digits(options.timeout)
           IN  IF options.timeout = 1
               THEN /\ Contains(printed, T \o SecondChars)
                    /\ ~Contains(printed, SecondChars \o <<"s">>)
               ELSE Contains(printed, T \o SecondChars \o <<"s">>)

\* the steps of _exit after the cleanup callback
AfterCleanup == {"exit_restore", "exit_print", "exit_sysexit", "exited"}
AfterRestore == {"exit_print", "exit_sysexit", "exited"}
AfterPrint == {"exit_sysexit", "exited"}

\* the cleanup callback, if it was invoked, is no longer running
CleanupOver == cleanupArgs # <<>> => cleanupResult \in Ended

C17_Order ==
    /\ Len(cleanupArgs) <= 1
    /\ Len(StatusLines) <= 1
    /\ pc \in AfterCleanup => CleanupOver
    /\ pc \in AfterRestore => sys_stdout = "orig"
    /\ pc \in AfterPrint
         => /\ Len(StatusLines) = 1
            /\ NonDebugLines[Len(NonDebugLines)].kind = "status"
    /\ StatusLines # <<>>
         => pc \in AfterPrint \cup {"killed", "crashed"} /\ sys_stdout = "orig"
    /\ exitCode # -1 => pc = "exited"

C17_OnceEach ==
    /\ pc \in AfterCleanup => cleanupArgs' = cleanupArgs
    /\ pc \in AfterRestore => sys_stdout' = sys_stdout
    /\ pc \in AfterPrint => StatusLines' = StatusLines
    /\ sys_stdout' # sys_stdout /\ start_time
         => pc = "exit_restore" \/ (pc = "run_divert" /\ cleanupArgs = <<>>)
    /\ StatusLines' # StatusLines
         => pc = "exit_print" /\ sys_stdout = "orig" /\ discarded' = discarded
    /\ exitCode' # exitCode => pc = "exit_sysexit" /\ Len(StatusLines) = 1

\* C17: in _exit the cleanup callback ends (or times out), then the original
\* stream is restored, then the status line is printed, then the process
\* exits; each happens at most once, and the status line goes to the original
\* stream and never to the NullStream.
C17_ExitOrder == [](C17_Order) /\ [][C17_OnceEach]_vars

\* a quiet run whose cleanup callback ran to its end before the status line
C17_Witness ==
    /\ pc = "exited"
    /\ ~options.verbose
    /\ cleanupArgs # <<>>
    /\ cleanupResult \in {"returned", "timeout"}
    /\ sys_stdout = "orig"
    /\ Len(StatusLines) = 1

\* the deadline of the check fires: _handle_timeout raises TimeoutException
CheckDeadlineFires ==
    phase = "check" /\ exc # TimeoutException /\ exc' = TimeoutException

C18_SingleAttempt ==
    /\ CheckDeadlineFires => pc' \in {"tf_finally", "run_classify"}
    /\ checkResult \in Ended => checkCalls' = checkCalls
    /\ exc = TimeoutException
         => checkCalls' = checkCalls /\ pc' \notin {"tf_init", "tf_enter"}
    /\ cleanupResult \in Ended => cleanupArgs' = cleanupArgs

\* C18: the check function is invoked at most once in a run and the cleanup
\* callback at most once; when the check's deadline fires the run goes to
\* classification and the check is not invoked again.
C18_NoRetries ==
    [](checkCalls <= 1 /\ Len(cleanupArgs) <= 1) /\ [][C18_SingleAttempt]_vars

\* a check that timed out, was classified, cleaned up after and exited
C18_Witness ==
    /\ pc = "exited"
    /\ checkResult = "timeout"
    /\ checkCalls = 1
    /\ Len(cleanupArgs) = 1

\* what the command line and the constructor make of the two timeouts
ResolvedTimeout ==
    IF argv.timeout.given THEN argv.timeout.value ELSE ctor.timeout
ResolvedCleanupTimeout ==
    IF argv.cleanup_timeout.given THEN argv.cleanup_timeout.value
    ELSE ctor.cleanup_timeout

\* the step on which a TimeoutFunction sets its alarm
DeadlineSet == pc = "tf_alarm" /\ pc' = "tf_function"

\* the step on which a TimeoutFunction of timeout 0 calls straight through
DeadlineWaived == pc = "tf_enter" /\ pc' = "tf_direct"

C19_Applied ==
    /\ DeadlineSet
         => alarm' = IF phase = "check" THEN ResolvedTimeout
                     ELSE ResolvedCleanupTimeout
    /\ DeadlineWaived
         => 0 = IF phase = "check" THEN ResolvedTimeout
                ELSE ResolvedCleanupTimeout

\* C19: during run the check is bounded by --timeout when given, else by the
\* constructor's timeout, and the cleanup callback by --cleanup-timeout when
\* given, else by the constructor's cleanup_timeout; the placeholder that
\* __init__ stored is not what bounds the callback.
C19_ResolvedDeadlinesApplied ==
    /\ [](start_time => /\ options.timeout = ResolvedTimeout
                        /\ cleanup_timeout = ResolvedCleanupTimeout)
    /\ [][C19_Applied]_vars

\* the callback runs under the constructor's cleanup_timeout, which is not
\* the placeholder, after a check that ran under the constructor's timeout
C19_Witness ==
    /\ pc = "tf_function"
    /\ phase = "cleanup"
    /\ ctor = OwnArguments
    /\ ~argv.cleanup_timeout.given
    /\ alarm = ctor.cleanup_timeout
    /\ alarm # PlaceholderCleanupTimeout
    /\ options.timeout = ctor.timeout

\* one of the five methods was called on a Check whose run never began, and
\* the process has ended
EndedBeforeRun == ~start_time /\ outcome # "none" /\ pc \in Terminal

\* C20: critical, warning, success, unknown or dependant called on a
\* constructed Check before run prints the status line and exits with the
\* mapped code; nothing is raised.
C20_ExitBeforeRunWorks ==
    EndedBeforeRun
        => /\ ExitedWith(outcome, exit_message)
           /\ uncaught = "none"

\* an alarm was set while the wrapped function runs, by the function itself
\* or by a TimeoutFunction it called and that has returned
AlarmSetInside == InFunction /\ own_alarm /\ handler # "nested"

\* the wrapped function of the current phase is stopped by a timeout
StoppedByTimeout ==
    \/ checkResult # "timeout" /\ checkResult' = "timeout"
    \/ cleanupResult # "timeout" /\ cleanupResult' = "timeout"

\* C21: once an alarm has been set during the execution of the wrapped
\* function (by the function, or by a nested TimeoutFunction that completed
\* inside it), the wrapped function is never stopped by a timeout.
C21_InnerAlarmOverridesTimeout ==
    [][AlarmSetInside => ~StoppedByTimeout]_vars

\* the inner call of a check that wraps part of its work in a TimeoutFunction
\* came back and the check is still running, its own deadline gone
NestedCompleted ==
    /\ checkFn.does = "nested"
    /\ pc = "tf_function"
    /\ own_alarm
    /\ handler = "check"
    /\ ~Pending

\* the TimeoutFunction whose signal.alarm call set the alarm now pending,
\* when no wrapped function has called signal.alarm itself: the cleanup's once
\* it has passed its signal.alarm call, the check's before that
Armer ==
    IF phase = "cleanup" /\ pc \notin {"tf_init", "tf_enter", "tf_alarm",
                                       "tf_direct"}
    THEN "cleanup"
    ELSE "check"

\* C22: while an alarm set by a TimeoutFunction is pending, the installed
\* SIGALRM handler is that TimeoutFunction's _handle_timeout; the alarm never
\* goes off under the previous handler and kills the process before the
\* status line is printed.
C22_PendingAlarmHasOwnHandler ==
    /\ (start_time /\ Pending /\ ~own_alarm /\ pc \notin Terminal)
         => handler = Armer
    /\ (pc = "killed" /\ ~own_alarm) => StatusLines # <<>>

\* run has stopped with an exception and _exit was never entered
StoppedOutsideExit == start_time /\ pc = "crashed" /\ outcome = "none"

\* C23: when run stops without going through _exit (the check raised an
\* exception no except clause names, or the timeout value was rejected),
\* sys.stdout is the original stream again and not the NullStream.
C23_StreamRestoredOnAbnormalStop ==
    StoppedOutsideExit => sys_stdout = "orig"

\* the exception a set_cleanup call ends in, by the kind of its argument
SetCleanupEnds(kind) ==
    CASE kind \in {"function", "wrapped"} -> "none"
      [] kind = "string" -> "TypeError"
      [] kind \in {"None", "TimeoutFunction"} -> "AttributeError"

\* the script has just called add_option
AddOptionStep == last_option' # last_option /\ last_option' # NoOptionCall

\* a setup call succeeds or fails by its argument alone
C24_SetupCalls ==
    /\ SetCleanupStep
         => /\ raised' = SetCleanupEnds(last_cleanup'.kind)
            /\ cleanup_callback' = IF raised' = "none" THEN last_cleanup'
                                   ELSE cleanup_callback
    /\ AddOptionStep
         => raised' = IF last_option' = "Option" THEN "none" ELSE "TypeError"

\* the process at hand was given what the earlier one was given, and has ended
Compared ==
    first.done /\ pc \in Terminal /\ Given_to_process = first.given

C24_Processes ==
    /\ ~DEBUG => \A i \in DOMAIN output : output[i].kind # "debug"
    /\ Compared => first.debug # DEBUG /\ Reached_by_process = first.reached

\* C24: two processes of one plugin that differ only in DEBUG end with the
\* same status, exit code and status message (or the same exception), setup
\* calls succeed or fail by their argument alone, and without DEBUG no debug
\* line is printed.
C24_DebugDoesNotInterfere == [](C24_Processes) /\ [][C24_SetupCalls]_vars

\* a process with DEBUG that printed debug lines, invoked the callback and
\* exited as the process without DEBUG before it did
C24_Witness ==
    /\ Compared
    /\ DEBUG
    /\ pc = "exited"
    /\ cleanupArgs # <<>>
    /\ \E i \in DOMAIN output : output[i].kind = "debug"
    /\ Reached_by_process = first.reached

====
